---- MODULE Spec2Model ----
(***************************************************************************)
(* magnet-sim: adaptive PID controller (core/controllers.py), coupled RL   *)
(* derivative function (core/physics.py), simulation orchestrator          *)
(* (core/simulation.py) and data loaders (utils/data_loader.py).           *)
(* Three specifications share the variables: Spec is one simulation run,   *)
(* SpecPID drives two controllers, SpecFn applies the pure functions.      *)
(*                                                                         *)
(* Real numbers are exact rationals <<n, d>> (d > 0, lowest terms); the    *)
(* rounding of IEEE doubles is not modelled.  Python's None is <<>>.       *)
(* Times are in seconds; the time grid is in ticks of 1/1000 s.            *)
(***************************************************************************)
EXTENDS Integers, Sequences, FiniteSets, TLC

VARIABLES
    pids,   \* controller harness: two PIDController instances built alike
    log,    \* controller harness: the calls issued so far
    outs    \* controller harness: per instance, what each call returned

VARIABLES
    cfg,              \* the arguments of one run and the files they name
    pc,               \* where simulate_magnetically_coupled_rl stands
    exc,              \* the exception that ended the run, or None
    L_matrix, R_funcs, initial_currents,
    pid_controllers, voltage_funcs,
    sol_t,            \* solver: time of the last accepted sample
    stage_t, stage_y, \* solver: time and state of its last evaluation
    in_attempt,       \* solver: a trial step is under way
    times, sol_y,     \* solution.t and solution.y (one vector per sample)
    evalLog,          \* every derivative evaluation that returned
    callsInt,         \* per integration-time controller, its compute calls
    pid_controllers_reset,
    callsRec,         \* per reconstruction controller, its compute calls
    ri, rj,           \* the (circuit, sample) the reconstruction stands at
    all_voltages, all_setpoints, all_inductive_voltages,
    result            \* the returned dictionary, or None

VARIABLES
    fcall,  \* function harness: the function applied last, with its arguments
    fret    \* function harness: what that call returned

pidvars == <<pids, log, outs>>
fnvars == <<fcall, fret>>
setupvars == <<L_matrix, R_funcs, initial_currents, voltage_funcs>>
solvervars == <<sol_t, stage_t, stage_y, in_attempt, times, sol_y>>
intvars == <<pid_controllers, evalLog, callsInt>>
postvars == <<pid_controllers_reset, callsRec, ri, rj,
              all_voltages, all_setpoints, all_inductive_voltages>>
simvars == <<cfg, pc, exc, setupvars, solvervars, intvars, postvars, result>>
vars == <<pidvars, simvars, fnvars>>

\* ------------------------------------------------------------------ bounds
MaxCalls == 3
MaxTick == 2
MaxEvals == 3

\* ------------------------------------------------------- exact arithmetic
None == <<>>

IAbs(x) == IF x < 0 THEN -x ELSE x

RECURSIVE GCD(_, _)
GCD(a, b) == IF b = 0 THEN a ELSE GCD(b, a % b)

LCM(a, b) == (a \div GCD(a, b)) * b

Norm(n, d) ==
    LET g == GCD(IAbs(n), d)
    IN  IF n = 0 THEN <<0, 1>> ELSE <<n \div g, d \div g>>

Rat(n) == <<n, 1>>
Frac(n, d) == Norm(n, d)
Zero == <<0, 1>>

RAdd(a, b) ==
    LET l == LCM(a[2], b[2])
    IN  Norm(a[1] * (l \div a[2]) + b[1] * (l \div b[2]), l)

RNeg(a) == <<-a[1], a[2]>>
RSub(a, b) == RAdd(a, RNeg(b))

RMul(a, b) ==
    LET g1 == GCD(IAbs(a[1]), b[2])
        g2 == GCD(IAbs(b[1]), a[2])
    IN  IF a[1] = 0 \/ b[1] = 0 THEN Zero
        ELSE <<(a[1] \div g1) * (b[1] \div g2), (a[2] \div g2) * (b[2] \div g1)>>

\* a / b for b # 0
RDiv(a, b) ==
    IF b[1] > 0 THEN RMul(a, <<b[2], b[1]>>)
    ELSE RMul(a, <<-b[2], -b[1]>>)

RLe(a, b) ==
    LET l == LCM(a[2], b[2])
    IN  a[1] * (l \div a[2]) <= b[1] * (l \div b[2])

RLt(a, b) == ~RLe(b, a)
RAbs(a) == <<IAbs(a[1]), a[2]>>
RMax(a, b) == IF RLt(a, b) THEN b ELSE a
RMin(a, b) == IF RLt(b, a) THEN b ELSE a

\* seconds of a tick count
Tick(k) == Frac(k, 1000)

\* ----------------------------------------------------- function tables
\* scipy interp1d(xs, ys, kind="linear", bounds_error=False,
\*                fill_value=(ys[0], ys[-1])) on samples sorted by x
RECURSIVE Segment(_, _, _)
Segment(xs, x, k) ==
    IF k >= Len(xs) - 1 \/ RLe(x, xs[k + 1]) THEN k ELSE Segment(xs, x, k + 1)

InterpHold(tab, x) == tab.ys[Segment(tab.xs, x, 1)]

Interp(tab, x) ==
    LET xs == tab.xs
        ys == tab.ys
        n  == Len(xs)
    IN  IF RLt(x, xs[1]) THEN ys[1]
        ELSE IF RLt(xs[n], x) THEN ys[n]
        ELSE IF n = 1 THEN ys[1]
        ELSE LET k == Segment(xs, x, 1)
             IN  IF xs[k + 1] = xs[k] THEN ys[k]
                 ELSE RAdd(ys[k],
                           RDiv(RMul(RSub(x, xs[k]), RSub(ys[k + 1], ys[k])),
                                RSub(xs[k + 1], xs[k])))

\* ------------------------------------------------------- gain schedule
LowCurrentMax == 60
MidCurrentMax == 800

GainsThreeRanges(current, t) ==
    IF RLe(current, Rat(LowCurrentMax)) THEN <<Rat(5), Frac(2, 10), Zero>>
    ELSE IF RLe(current, Rat(MidCurrentMax)) THEN <<Rat(12), Rat(1), Zero>>
    ELSE <<Rat(20), Rat(2), Zero>>

get_pid_params(current, t) ==
    IF RLe(current, Rat(LowCurrentMax)) THEN <<Rat(5), Frac(2, 10), Zero>>
    ELSE IF RLe(current, Rat(MidCurrentMax)) THEN <<Rat(12), Rat(1), Zero>>
    ELSE <<Rat(12), Rat(1), Zero>>

\* ------------------------------------------------------- PID controller
DtFirst == Frac(1, 1000)
DtFloor == Frac(1, 1000)
KiSwitchTol == Frac(1, 100)

\* PIDController.__init__ with the first-call flag left cleared
PIDInitRunning(setpoint_func, fixed_setpoint, output_limits, t_start) ==
    [ setpoint_func |-> setpoint_func,
      fixed_setpoint |-> fixed_setpoint,
      output_limits |-> output_limits,
      t_start |-> t_start,
      Kp |-> Zero,
      Ki |-> Zero,
      Kd |-> Zero,
      prev_error |-> Zero,
      integral |-> Zero,
      prev_time |-> t_start,
      first_call |-> FALSE,
      prev_Ki |-> Zero ]

\* PIDController.__init__
PIDInit(setpoint_func, fixed_setpoint, output_limits, t_start) ==
    [ setpoint_func |-> setpoint_func,
      fixed_setpoint |-> fixed_setpoint,
      output_limits |-> output_limits,
      t_start |-> t_start,
      Kp |-> Zero,
      Ki |-> Zero,
      Kd |-> Zero,
      prev_error |-> Zero,
      integral |-> Zero,
      prev_time |-> t_start,
      first_call |-> TRUE,
      prev_Ki |-> Zero ]

SetpointAtZero(c, t) ==
    IF c.setpoint_func # None THEN Interp(c.setpoint_func[1], Zero)
    ELSE IF c.fixed_setpoint # None THEN c.fixed_setpoint
    ELSE Zero

get_setpoint(c, t) ==
    IF c.setpoint_func # None THEN Interp(c.setpoint_func[1], t)
    ELSE IF c.fixed_setpoint # None THEN c.fixed_setpoint
    ELSE Zero

ClampNoFloor(limits, output) ==
    IF limits # None THEN RMin(output, limits[2]) ELSE output

\* output = max(output_limits[0], min(output, output_limits[1]))
Clamp(limits, output) ==
    IF limits # None THEN RMax(limits[1], RMin(output, limits[2])) ELSE output

\* lines 117-122: the time step of a call (a call that raises on a None
\* prev_time gets no further than this; its dt is of no consequence)
DtNoFloor(c, current_time) ==
    IF c.first_call \/ c.prev_time = None THEN DtFirst
    ELSE RSub(current_time, c.prev_time)

Dt(c, current_time) ==
    IF c.first_call \/ c.prev_time = None THEN DtFirst
    ELSE RMax(RSub(current_time, c.prev_time), DtFloor)

\* lines 134-137: the rescale on a gain switch, then the new contribution
\* (a rescale by Ki = 0 raises; the call's result is then not this value)
AccumulateThenRescale(integral, prev_Ki, Ki, error, dt) ==
    IF RLt(KiSwitchTol, RAbs(RSub(Ki, prev_Ki))) /\ Ki # Zero
    THEN RDiv(RMul(RAdd(integral, RMul(error, dt)), prev_Ki), Ki)
    ELSE RAdd(integral, RMul(error, dt))

\* an accumulator held within +-0.01 (integrator clamping)
AccumulateBounded(integral, prev_Ki, Ki, error, dt) ==
    RMax(Frac(-1, 100),
         RMin(Frac(1, 100),
              RAdd(IF RLt(KiSwitchTol, RAbs(RSub(Ki, prev_Ki))) /\ Ki # Zero
                   THEN RDiv(RMul(integral, prev_Ki), Ki)
                   ELSE integral,
                   RMul(error, dt))))

AccumulateInverted(integral, prev_Ki, Ki, error, dt) ==
    RAdd(IF RLt(KiSwitchTol, RAbs(RSub(Ki, prev_Ki))) /\ prev_Ki # Zero
         THEN RDiv(RMul(integral, Ki), prev_Ki)
         ELSE integral,
         RMul(error, dt))

Accumulate(integral, prev_Ki, Ki, error, dt) ==
    RAdd(IF RLt(KiSwitchTol, RAbs(RSub(Ki, prev_Ki))) /\ Ki # Zero
         THEN RDiv(RMul(integral, prev_Ki), Ki)
         ELSE integral,
         RMul(error, dt))

\* PIDController.compute: the new controller record, the returned pair and
\* whether the call raised (TypeError on a None prev_time, ZeroDivisionError
\* on a rescale by Ki = 0)
PIDCompute(c, process_variable, current_time) ==
    LET setpoint == get_setpoint(c, current_time)
        error    == RSub(setpoint, process_variable)
        noPrev   == ~c.first_call /\ c.prev_time = None
        dt       == Dt(c, current_time)
        g        == get_pid_params(process_variable, current_time)
        Kp       == g[1]
        Ki       == g[2]
        Kd       == g[3]
        proportional == RMul(Kp, error)
        rescale  == RLt(KiSwitchTol, RAbs(RSub(Ki, c.prev_Ki)))
        divZero  == rescale /\ Ki = Zero
        integral == Accumulate(c.integral, c.prev_Ki, Ki, error, dt)
        integral_term == RMul(Ki, integral)
        derivative == IF RLt(Zero, dt) THEN RDiv(RSub(error, c.prev_error), dt)
                      ELSE Zero
        derivative_term == IF c.first_call THEN Zero ELSE RMul(Kd, derivative)
        output   == Clamp(c.output_limits,
                          RAdd(RAdd(proportional, integral_term), derivative_term))
    IN  IF noPrev
        THEN [output |-> None, setpoint |-> None, pid |-> c, raised |-> TRUE]
        ELSE IF divZero
        THEN [output |-> None, setpoint |-> None,
              pid |-> [c EXCEPT !.Kp = Kp, !.Ki = Ki, !.Kd = Kd],
              raised |-> TRUE]
        ELSE [output |-> output, setpoint |-> setpoint,
              pid |-> [c EXCEPT !.Kp = Kp, !.Ki = Ki, !.Kd = Kd,
                                !.integral = integral,
                                !.first_call = FALSE,
                                !.prev_error = error,
                                !.prev_time = current_time,
                                !.prev_Ki = Ki],
              raised |-> FALSE]

\* a reset that re-arms the flag and the time but keeps the accumulator
ResetFlagsOnly(c) == [c EXCEPT !.prev_time = Zero, !.first_call = TRUE]

ResetNothing(c) == c

ResetKeepPending(c) ==
    [c EXCEPT !.prev_error = Zero, !.integral = Zero, !.prev_time = Zero,
              !.prev_Ki = Zero]

\* PIDController.reset
PIDReset(c) ==
    [c EXCEPT !.prev_error = Zero, !.integral = Zero, !.prev_time = Zero,
              !.first_call = TRUE, !.prev_Ki = Zero]

\* self.<attribute> = ... : an attribute write lands in that instance only
StoreShared(ps, k, c) ==
    [j \in DOMAIN ps |->
        IF j = k THEN c ELSE [ps[j] EXCEPT !.integral = c.integral]]

StoreInstance(ps, k, c) == [ps EXCEPT ![k] = c]

\* ------------------------------------------------------ data loaders
\* np.allclose(a, b, rtol=1e-10) on one entry: |a - b| <= 1e-8 + 1e-10 |b|.
\* A difference of at most 1e-8 is within it whatever b is; for |b| <= 1e6 the
\* right side is below 1e-3, so a difference of 1e-3 or more is outside it;
\* anything between is decided with both sides scaled by 1e8.
EntryClose(a, b) ==
    LET diff == RAbs(RSub(a, b))
    IN  IF RLe(diff, Frac(1, 100000000)) THEN TRUE
        ELSE IF RLe(Frac(1, 1000), diff) /\ RLe(RAbs(b), Rat(1000000)) THEN FALSE
        ELSE RLe(RMul(diff, Rat(100000000)),
                 RAdd(Rat(1), RDiv(RAbs(b), Rat(100))))

Transpose(M) == [i \in 1..Len(M) |-> [j \in 1..Len(M) |-> M[j][i]]]

\* the symmetry correction: a matrix that np.allclose tells from its
\* transpose is replaced by the average of the two
KeepAsLoaded(M, n_circuits) == M

Symmetrized(M, n_circuits) ==
    IF \A i, j \in 1..n_circuits : EntryClose(M[i][j], M[j][i])
    THEN M
    ELSE [i \in 1..n_circuits |-> [j \in 1..n_circuits |->
             RDiv(RAdd(M[i][j], M[j][i]), Rat(2))]]

\* np.any(np.linalg.eigvals(L) <= 0) for one or two circuits, in exact
\* arithmetic: both eigenvalues of a 2x2 matrix with real eigenvalues are
\* positive iff its trace and its determinant are
NonPositiveEigenvalue(A) ==
    IF Len(A) = 1 THEN RLe(A[1][1], Zero)
    ELSE \/ RLe(RAdd(A[1][1], A[2][2]), Zero)
         \/ RLe(RSub(RMul(A[1][1], A[2][2]), RMul(A[1][2], A[2][1])), Zero)

\* the positive-definiteness check: a warning, and the matrix is returned
EigenCheckFatal(A) ==
    [ok |-> ~NonPositiveEigenvalue(A), L |-> A,
     warned |-> NonPositiveEigenvalue(A)]

EigenCheck(A) == [ok |-> TRUE, L |-> A, warned |-> NonPositiveEigenvalue(A)]

\* load_inductance_matrix: the shape check, the symmetry correction and the
\* eigenvalue check; ok = FALSE stands for the ValueError
load_inductance_matrix(M, n_circuits) ==
    IF Len(M) # n_circuits \/ \E i \in 1..Len(M) : Len(M[i]) # n_circuits
    THEN [ok |-> FALSE, L |-> None, warned |-> FALSE]
    ELSE EigenCheck(Symmetrized(M, n_circuits))

\* the resistance-vs-current table of resistance file f
ResistanceFile(f) ==
    [xs |-> <<Rat(0), Rat(100)>>, ys |-> <<Frac(f, 1000), Frac(10 + f, 1000)>>]

\* load_resistance_data: one interpolation function per file
load_resistance_data(csv_files) ==
    [k \in 1..Len(csv_files) |-> ResistanceFile(csv_files[k])]

\* the inputs file: its time column and the column of circuit i
InputTimes == <<Tick(0), Tick(MaxTick)>>
InputColumn(input_type, i) ==
    IF input_type = "pid" THEN <<Rat(10 * i), Rat(200 * i)>>
    ELSE <<Rat(i), Rat(3 * i)>>

\* load_electrical_inputs: fails on a missing column, else one function per
\* circuit
load_electrical_inputs(columns, n_circuits, input_type) ==
    IF n_circuits > columns THEN [ok |-> FALSE, funcs |-> None]
    ELSE [ok |-> TRUE,
          funcs |-> [i \in 1..n_circuits |->
                        [xs |-> InputTimes, ys |-> InputColumn(input_type, i)]]]

\* --------------------------------------------------- derivative function
\* np.linalg.solve(L, b), and np.linalg.pinv(L) @ b when L is singular
\* (matrices of order 1 and 2)
Det2(L) == RSub(RMul(L[1][1], L[2][2]), RMul(L[1][2], L[2][1]))

Frob2(L) ==
    RAdd(RAdd(RMul(L[1][1], L[1][1]), RMul(L[1][2], L[1][2])),
         RAdd(RMul(L[2][1], L[2][1]), RMul(L[2][2], L[2][2])))

IsSingular(L) ==
    IF Len(L) = 1 THEN L[1][1] = Zero ELSE Det2(L) = Zero

PinvApply(L, b) ==
    IF Len(L) = 1 THEN <<Zero>>
    ELSE IF Frob2(L) = Zero THEN <<Zero, Zero>>
    ELSE [i \in 1..2 |->
            RDiv(RAdd(RMul(L[1][i], b[1]), RMul(L[2][i], b[2])), Frob2(L))]

DirectSolve(L, b) ==
    IF Len(L) = 1 THEN <<RDiv(b[1], L[1][1])>>
    ELSE << RDiv(RSub(RMul(b[1], L[2][2]), RMul(L[1][2], b[2])), Det2(L)),
            RDiv(RSub(RMul(L[1][1], b[2]), RMul(b[1], L[2][1])), Det2(L)) >>

LinSolveZeroWhenSingular(L, b) ==
    IF IsSingular(L) THEN [i \in 1..Len(b) |-> Zero] ELSE DirectSolve(L, b)

LinSolve(L, b) == IF IsSingular(L) THEN PinvApply(L, b) ELSE DirectSolve(L, b)

\* for i, (current, pid) in enumerate(zip(currents, pid_controllers)):
\*     voltage, _ = pid.compute(current, t)
CallDone(r, i, pv, t, rest) ==
    [pids |-> rest.pids,
     outs |-> <<r.output>> \o rest.outs,
     raised |-> r.raised \/ rest.raised,
     calls |-> <<[t |-> t, i |-> i, pv |-> pv]>> \o rest.calls]

RECURSIVE ComputeAllFirst(_, _, _, _)
ComputeAllFirst(ps, currents, t, i) ==
    IF i > Len(ps)
    THEN [pids |-> ps, outs |-> <<>>, raised |-> FALSE, calls |-> <<>>]
    ELSE CallDone(PIDCompute(ps[1], currents[i], t), 1, currents[i], t,
                  ComputeAllFirst(StoreInstance(ps, 1, PIDCompute(ps[1], currents[i], t).pid),
                                  currents, t, i + 1))

RECURSIVE ComputeAll(_, _, _, _)
ComputeAll(ps, currents, t, i) ==
    IF i > Len(ps)
    THEN [pids |-> ps, outs |-> <<>>, raised |-> FALSE, calls |-> <<>>]
    ELSE CallDone(PIDCompute(ps[i], currents[i], t), i, currents[i], t,
                  ComputeAll(StoreInstance(ps, i, PIDCompute(ps[i], currents[i], t).pid),
                             currents, t, i + 1))

NoControl(pidcs) ==
    [pids |-> pidcs, outs |-> <<>>, raised |-> FALSE, calls |-> <<>>]

\* resistances[i] = R_funcs[i](abs(currents[i]))
Resistances(R, currents, n_circuits) ==
    [i \in 1..n_circuits |-> Interp(R[i], RAbs(currents[i]))]

\* controllers or nothing: the voltage functions never consulted
AppliedVoltagesPidOnly(ctl, usePid, useV, vfuncs, t, n_circuits) ==
    [i \in 1..n_circuits |-> IF usePid THEN ctl.outs[i] ELSE Zero]

\* the three branches of lines 66-80
AppliedVoltages(ctl, usePid, useV, vfuncs, t, n_circuits) ==
    [i \in 1..n_circuits |->
        IF usePid THEN ctl.outs[i]
        ELSE IF useV THEN Interp(vfuncs[i], t)
        ELSE Zero]

\* lines 61-62 and 82-94: net voltages and the linear solve
Solved(ctl, resistances, voltages, currents, L) ==
    [pids |-> ctl.pids, raised |-> "no", calls |-> ctl.calls,
     resistances |-> resistances, voltages |-> voltages,
     di_dt |-> LinSolve(L, [i \in 1..Len(currents) |->
                  RSub(voltages[i], RMul(resistances[i], currents[i]))])]

Controlled(ctl, usePid, useV, t, currents, L, R, n_circuits, vfuncs) ==
    IF ctl.raised
    THEN [pids |-> ctl.pids, raised |-> "TypeError", calls |-> ctl.calls,
          resistances |-> None, voltages |-> None, di_dt |-> None]
    ELSE Solved(ctl, Resistances(R, currents, n_circuits),
                AppliedVoltages(ctl, usePid, useV, vfuncs, t, n_circuits),
                currents, L)

UsePid(pidcs, n_circuits) == pidcs # None /\ Len(pidcs) = n_circuits
UseVoltage(pidcs, vfuncs, n_circuits) ==
    ~UsePid(pidcs, n_circuits) /\ vfuncs # None /\ Len(vfuncs) = n_circuits

\* magnetically_coupled_rl_system
magnetically_coupled_rl_system(t, currents, L, R, n_circuits, vfuncs, pidcs) ==
    IF Len(R) # n_circuits
    THEN [pids |-> pidcs, raised |-> "ValueError", calls |-> <<>>,
          resistances |-> None, voltages |-> None, di_dt |-> None]
    ELSE Controlled(IF UsePid(pidcs, n_circuits)
                    THEN ComputeAll(pidcs, currents, t, 1)
                    ELSE NoControl(pidcs),
                    UsePid(pidcs, n_circuits),
                    UseVoltage(pidcs, vfuncs, n_circuits),
                    t, currents, L, R, n_circuits, vfuncs)

\* ---------------------------------------------------------- orchestrator
\* output_limits = (-100, 100000)
SimOutputLimits == <<Rat(-100), Rat(100000)>>

\* the N controllers of lines 94-103 (and again of lines 144-154)
MakeControllers(target_funcs, n_circuits) ==
    [i \in 1..n_circuits |->
        PIDInit(<<target_funcs[i]>>, None, SimOutputLimits, None)]

Fail(type, what) ==
    [pids |-> None, exc |-> [type |-> type, what |-> what],
     L |-> None, R |-> None, vfuncs |-> None, y0 |-> None]

\* lines 54-116 of simulate_magnetically_coupled_rl, in program order
\* lines 74-76: absent initial currents default to zero for every circuit
InitialCurrentsFull(ic, n_circuits) ==
    IF ic = None THEN [i \in 1..n_circuits |-> Rat(100)] ELSE ic

InitialCurrents(ic, n_circuits) ==
    IF ic = None THEN [i \in 1..n_circuits |-> Zero] ELSE ic

SetupOutcome(c) ==
    LET n  == c.n_circuits
        Lr == load_inductance_matrix(c.inductance, n)
        rc == c.resistance_csvs
        ic == c.initial_currents
        R  == load_resistance_data(rc.files)
        y0 == InitialCurrents(ic, n)
        inp == load_electrical_inputs(c.input_columns, n, c.control_mode)
        ok(pidcs, vfuncs) ==
            [pids |-> pidcs, exc |-> None, L |-> Lr.L, R |-> R,
             vfuncs |-> vfuncs, y0 |-> y0]
    IN  IF n < 1 THEN Fail("ValueError", "n_circuits")
        ELSE IF ~Lr.ok THEN Fail("ValueError", "inductance")
        ELSE IF rc.kind \notin {"str", "list"}
        THEN Fail("ValueError", "resistance_csvs")
        ELSE IF rc.kind = "list" /\ Len(rc.files) # n
        THEN Fail("ValueError", "resistance_csvs")
        ELSE IF ic # None /\ Len(ic) # n
        THEN Fail("ValueError", "initial_currents")
        ELSE IF c.control_mode = "pid"
        THEN IF ~inp.ok THEN Fail("ValueError", "inputs")
             ELSE ok(MakeControllers(inp.funcs, n), None)
        ELSE IF c.control_mode = "voltage"
        THEN IF ~inp.ok THEN Fail("ValueError", "inputs")
             ELSE ok(None, inp.funcs)
        ELSE IF c.control_mode = "none" THEN ok(None, None)
        ELSE Fail("ValueError", "control_mode")

\* t_span and max_step (in ticks) of the solve_ivp call
TStart == Tick(0)
TEnd == Tick(MaxTick)
MaxStepTicks == 10

StateVectors(n) == [1..n -> {Rat(0), Rat(100)}]

EvalEntry(t, y, d) ==
    [t |-> t, resistances |-> d.resistances, voltages |-> d.voltages,
     di_dt |-> d.di_dt, y |-> y]

\* calls, a sequence of [i, pv, t], appended to the per-controller logs
RECURSIVE LogCalls(_, _)
LogCalls(logs, calls) ==
    IF calls = <<>> THEN logs
    ELSE LogCalls([logs EXCEPT ![calls[1].i] =
                        Append(@, <<calls[1].pv, calls[1].t>>)],
                  Tail(calls))

\* Inductive voltage of circuit i at sample j (lines 175-185, 206-216)
RECURSIVE InductiveSum(_, _, _, _, _, _)
InductiveSum(L, ts, y, i, j, k) ==
    IF k = 0 THEN Zero
    ELSE RAdd(InductiveSum(L, ts, y, i, j, k - 1),
              RMul(L[i][k],
                   RDiv(RSub(y[j][k], y[j - 1][k]), RSub(ts[j], ts[j - 1]))))

\* the self-inductance term alone
InductiveVoltageSelf(L, ts, y, n, i, j) ==
    IF j > 1
    THEN RMul(L[i][i], RDiv(RSub(y[j][i], y[j - 1][i]), RSub(ts[j], ts[j - 1])))
    ELSE Zero

InductiveVoltage(L, ts, y, n, i, j) ==
    IF j > 1 THEN InductiveSum(L, ts, y, i, j, n) ELSE Zero

\* pid_controllers_reset[i].compute(current_i, t)
ReplayCallStale(intCs, recCs, i, pv, t) ==
    LET r == PIDCompute(intCs[i], pv, t)
    IN  [int |-> StoreInstance(intCs, i, r.pid), rec |-> recCs,
         v |-> r.output, sp |-> r.setpoint, on |-> "int"]

ReplayCall(intCs, recCs, i, pv, t) ==
    LET r == PIDCompute(recCs[i], pv, t)
    IN  [int |-> intCs, rec |-> StoreInstance(recCs, i, r.pid),
         v |-> r.output, sp |-> r.setpoint, on |-> "rec"]

\* R_funcs[0] if len(R_funcs) == 1 else R_funcs[i]
ResistanceOf(R, i, current) ==
    IF Len(R) = 1 THEN Interp(R[1], RAbs(current)) ELSE Interp(R[i], RAbs(current))

RECURSIVE SumColumn(_, _, _)
SumColumn(rows, j, i) ==
    IF i = 0 THEN Zero ELSE RAdd(SumColumn(rows, j, i - 1), rows[i][j])

PidIdle ==
    /\ pids = <<>>
    /\ log = <<>>
    /\ outs = <<>>

SimIdle ==
    /\ cfg = None /\ pc = "idle" /\ exc = None
    /\ L_matrix = None /\ R_funcs = None /\ initial_currents = None
    /\ pid_controllers = None /\ voltage_funcs = None
    /\ sol_t = None /\ stage_t = None /\ stage_y = None /\ in_attempt = FALSE
    /\ times = <<>> /\ sol_y = <<>>
    /\ evalLog = <<>> /\ callsInt = <<>>
    /\ pid_controllers_reset = None /\ callsRec = <<>>
    /\ ri = 0 /\ rj = 0
    /\ all_voltages = <<>> /\ all_setpoints = <<>>
    /\ all_inductive_voltages = <<>>
    /\ result = None

FnIdle ==
    /\ fcall = None
    /\ fret = None

InductanceFiles ==
    { << <<Rat(2)>> >>,
      << <<Rat(2), Rat(1)>>, <<Rat(1), Rat(2)>> >>,
      << <<Rat(2), Rat(1)>>, <<Rat(3), Rat(2)>> >> }

ResistanceArgs ==
    { [files |-> <<1>>, kind |-> "str"],
      [files |-> <<1>>, kind |-> "list"],
      [files |-> <<1, 2>>, kind |-> "list"],
      [files |-> <<>>, kind |-> "other"] }

Init ==
    /\ PidIdle
    /\ FnIdle
    /\ \E n \in 0..2, rc \in ResistanceArgs, L \in InductanceFiles,
          ic \in {None, <<Zero>>},
          mode \in {"pid", "voltage", "none", "invalid"},
          cols \in 1..2 :
          cfg = [initial_currents |-> ic, n_circuits |-> n, inductance |-> L,
                 resistance_csvs |-> rc, input_columns |-> cols,
                 control_mode |-> mode]
    /\ pc = "called" /\ exc = None
    /\ L_matrix = None /\ R_funcs = None /\ initial_currents = None
    /\ pid_controllers = None /\ voltage_funcs = None
    /\ sol_t = None /\ stage_t = None /\ stage_y = None /\ in_attempt = FALSE
    /\ times = <<>> /\ sol_y = <<>>
    /\ evalLog = <<>> /\ callsInt = <<>>
    /\ pid_controllers_reset = None /\ callsRec = <<>>
    /\ ri = 0 /\ rj = 0
    /\ all_voltages = <<>> /\ all_setpoints = <<>>
    /\ all_inductive_voltages = <<>>
    /\ result = None

SetupWith(o) ==
    /\ exc' = o.exc
    /\ pc' = IF o.exc = None THEN "ready" ELSE "raised"
    /\ L_matrix' = o.L
    /\ R_funcs' = o.R
    /\ initial_currents' = o.y0
    /\ pid_controllers' = o.pids
    /\ voltage_funcs' = o.vfuncs
    /\ callsInt' = IF o.pids = None THEN <<>>
                   ELSE [i \in 1..Len(o.pids) |-> <<>>]

\* lines 54-116: validation, loading, controller construction
Setup ==
    /\ pc = "called"
    /\ SetupWith(SetupOutcome(cfg))
    /\ UNCHANGED <<cfg, solvervars, evalLog, postvars, result, pidvars, fnvars>>

Derivative(t, y) ==
    magnetically_coupled_rl_system(t, y, L_matrix, R_funcs, cfg.n_circuits,
                                   voltage_funcs, pid_controllers)

\* what one call of fun(t, y) by the solver does to the run
Evaluated(t, y, d, first) ==
    /\ pid_controllers' = d.pids
    /\ callsInt' = LogCalls(callsInt, d.calls)
    /\ IF d.raised # "no"
       THEN /\ pc' = "raised"
            /\ exc' = [type |-> d.raised, what |-> "R_funcs"]
            /\ UNCHANGED <<evalLog, stage_t, stage_y, in_attempt>>
       ELSE /\ pc' = "integrating"
            /\ exc' = exc
            /\ evalLog' = Append(evalLog, EvalEntry(t, y, d))
            /\ stage_t' = t
            /\ stage_y' = y
            /\ in_attempt' = ~first

\* solve_ivp starts: the solver's first evaluation, fun(t0, y0); (t0, y0) is
\* the first sample of the trajectory
SolverInit ==
    /\ pc = "ready"
    /\ Evaluated(TStart, initial_currents,
                 Derivative(TStart, initial_currents), TRUE)
    /\ sol_t' = IF pc' = "raised" THEN sol_t ELSE TStart
    /\ times' = IF pc' = "raised" THEN times ELSE <<TStart>>
    /\ sol_y' = IF pc' = "raised" THEN sol_y ELSE <<initial_currents>>
    /\ UNCHANGED <<cfg, setupvars, postvars, result, pidvars, fnvars>>

\* the solver evaluates fun(t, y) at a stage of a trial step: within one
\* trial the stage times do not decrease and lie after the accepted time
StageEval ==
    /\ pc = "integrating"
    /\ RLt(sol_t, TEnd)
    /\ Len(evalLog) < MaxEvals
    /\ \E k \in 0..MaxTick, y \in StateVectors(cfg.n_circuits) :
          /\ RLt(sol_t, Tick(k)) /\ RLe(stage_t, Tick(k)) /\ RLe(Tick(k), TEnd)
          /\ RLe(RSub(Tick(k), sol_t), Tick(MaxStepTicks))
          /\ Evaluated(Tick(k), y, Derivative(Tick(k), y), FALSE)
    /\ UNCHANGED <<cfg, setupvars, sol_t, times, sol_y, postvars, result,
                   pidvars, fnvars>>

\* the trial step passes the error test: its end point joins the trajectory
AcceptStep ==
    /\ pc = "integrating"
    /\ in_attempt
    /\ times' = Append(times, stage_t)
    /\ sol_y' = Append(sol_y, stage_y)
    /\ sol_t' = stage_t
    /\ in_attempt' = FALSE
    /\ UNCHANGED <<cfg, pc, exc, setupvars, stage_t, stage_y, intvars,
                   postvars, result, pidvars, fnvars>>

\* the trial step fails the error test (or was the probe of the initial
\* step size): the solver goes back to the accepted time
RejectStep ==
    /\ pc = "integrating"
    /\ in_attempt
    /\ stage_t' = sol_t
    /\ stage_y' = sol_y[Len(sol_y)]
    /\ in_attempt' = FALSE
    /\ UNCHANGED <<cfg, pc, exc, setupvars, sol_t, times, sol_y, intvars,
                   postvars, result, pidvars, fnvars>>

\* solve_ivp returns: t_end reached, or the solver gave up (status -1, no
\* exception) with the trajectory so far
SolveReturns ==
    /\ pc = "integrating"
    /\ ~in_attempt
    /\ pc' = "solved"
    /\ UNCHANGED <<cfg, exc, setupvars, solvervars, intvars, postvars,
                   result, pidvars, fnvars>>

ReuseControllers(pidcs, target_funcs, n_circuits) == pidcs

\* lines 144-154: N new controllers on newly loaded target functions
ReconstructionControllers(pidcs, target_funcs, n_circuits) ==
    MakeControllers(target_funcs, n_circuits)

\* lines 142-154: the controllers of the reconstruction pass
PostPid ==
    /\ pc = "solved"
    /\ cfg.control_mode = "pid"
    /\ pid_controllers_reset' =
          ReconstructionControllers(
              pid_controllers,
              load_electrical_inputs(cfg.input_columns, cfg.n_circuits, "pid").funcs,
              cfg.n_circuits)
    /\ callsRec' = [i \in 1..cfg.n_circuits |-> <<>>]
    /\ ri' = 1 /\ rj' = 1
    /\ pc' = "replay"
    /\ UNCHANGED <<cfg, exc, setupvars, solvervars, intvars, all_voltages,
                   all_setpoints, all_inductive_voltages, result,
                   pidvars, fnvars>>

AppendToRowOnce(rows, i, x) ==
    IF Len(rows) < i THEN Append(rows, <<x>>) ELSE rows

AppendToRow(rows, i, x) ==
    IF Len(rows) < i THEN Append(rows, <<x>>)
    ELSE [rows EXCEPT ![i] = Append(@, x)]

Replayed(r, call) ==
    /\ pid_controllers' = r.int
    /\ pid_controllers_reset' = r.rec
    /\ callsInt' = IF r.on = "int"
                   THEN [callsInt EXCEPT ![ri] = Append(@, call)]
                   ELSE callsInt
    /\ callsRec' = IF r.on = "rec"
                   THEN [callsRec EXCEPT ![ri] = Append(@, call)]
                   ELSE callsRec
    /\ all_voltages' = AppendToRow(all_voltages, ri, r.v)
    /\ all_setpoints' = AppendToRow(all_setpoints, ri, r.sp)

\* lines 157-189: one pass of the inner loop, at circuit ri and sample rj
ReplayStep ==
    /\ pc = "replay"
    /\ Replayed(ReplayCall(pid_controllers, pid_controllers_reset, ri,
                           sol_y[rj][ri], times[rj]),
                <<sol_y[rj][ri], times[rj]>>)
    /\ all_inductive_voltages' =
          AppendToRow(all_inductive_voltages, ri,
                      InductiveVoltage(L_matrix, times, sol_y, cfg.n_circuits, ri, rj))
    /\ IF rj < Len(times) THEN /\ rj' = rj + 1
                               /\ UNCHANGED <<ri, pc>>
       ELSE /\ rj' = 1
            /\ ri' = ri + 1
            /\ pc' = IF ri < cfg.n_circuits THEN "replay" ELSE "assemble"
    /\ UNCHANGED <<cfg, exc, setupvars, solvervars, evalLog, result,
                   pidvars, fnvars>>

\* lines 191-218: voltage mode
PostVoltage ==
    /\ pc = "solved"
    /\ cfg.control_mode = "voltage"
    /\ all_voltages' = [i \in 1..cfg.n_circuits |->
                          [j \in 1..Len(times) |-> Interp(voltage_funcs[i], times[j])]]
    /\ all_setpoints' = [i \in 1..cfg.n_circuits |-> [j \in 1..Len(times) |-> None]]
    /\ all_inductive_voltages' =
          [i \in 1..cfg.n_circuits |-> [j \in 1..Len(times) |->
              InductiveVoltage(L_matrix, times, sol_y, cfg.n_circuits, i, j)]]
    /\ pc' = "assemble"
    /\ UNCHANGED <<cfg, exc, setupvars, solvervars, intvars,
                   pid_controllers_reset, callsRec, ri, rj, result,
                   pidvars, fnvars>>

\* lines 220-221: any other mode that got this far
PostNone ==
    /\ pc = "solved"
    /\ cfg.control_mode \notin {"pid", "voltage"}
    /\ pc' = "raised"
    /\ exc' = [type |-> "RuntimeError", what |-> "control_mode"]
    /\ UNCHANGED <<cfg, setupvars, solvervars, intvars, postvars, result,
                   pidvars, fnvars>>

\* lines 223-255: resistances, total setpoint, the returned dictionary
Assemble ==
    /\ pc = "assemble"
    /\ LET n == cfg.n_circuits
           T == Len(times)
           individual_currents == [i \in 1..n |-> [j \in 1..T |-> sol_y[j][i]]]
       IN  result' =
             [ L_matrix |-> L_matrix,
               times |-> times,
               n_circuits |-> n,
               voltages |-> all_voltages,
               control_mode |-> cfg.control_mode,
               individual_currents |-> individual_currents,
               i_total |-> [j \in 1..T |-> SumColumn(individual_currents, j, n)],
               inductive_voltages |-> all_inductive_voltages,
               individual_resistances |->
                   [i \in 1..n |-> [j \in 1..T |->
                       ResistanceOf(R_funcs, i, individual_currents[i][j])]],
               setpoints |-> all_setpoints,
               total_setpoint |->
                   IF cfg.control_mode = "pid"
                   THEN [j \in 1..T |-> SumColumn(all_setpoints, j, n)]
                   ELSE [j \in 1..T |-> None] ]
    /\ pc' = "returned"
    /\ UNCHANGED <<cfg, exc, setupvars, solvervars, intvars, postvars,
                   pidvars, fnvars>>

Next ==
    \/ Setup
    \/ SolverInit
    \/ StageEval
    \/ AcceptStep
    \/ RejectStep
    \/ SolveReturns
    \/ PostPid
    \/ ReplayStep
    \/ PostVoltage
    \/ PostNone
    \/ Assemble

Spec == Init /\ [][Next]_vars

\* ------------------------------------------------- claims about a run
\* a controller as the orchestrator constructs it for circuit i
FreshController(i) ==
    PIDInit(<<[xs |-> InputTimes, ys |-> InputColumn("pid", i)]>>, None,
            SimOutputLimits, None)

\* controller c, fed the samples j, j + 1, ... of circuit i's trajectory in
\* turn, returns the voltages and setpoints reported for those samples and
\* ends as the reconstruction controller of circuit i
RECURSIVE ReplayedFrom(_, _, _)
ReportedAs(r, i, j) ==
    /\ all_voltages[i][j] = r.output
    /\ all_setpoints[i][j] = r.setpoint
    /\ ReplayedFrom(r.pid, i, j + 1)

ReplayedFrom(c, i, j) ==
    IF j > Len(all_voltages[i]) THEN pid_controllers_reset[i] = c
    ELSE ReportedAs(PIDCompute(c, sol_y[j][i], times[j]), i, j)

\* controller c, fed the evaluations k, k + 1, ... of the derivative function
\* in turn, returns the voltages those evaluations applied to circuit i and
\* ends as the integration-time controller of circuit i
RECURSIVE EvaluatedFrom(_, _, _)
AppliedAs(r, i, k) ==
    /\ evalLog[k].voltages[i] = r.output
    /\ EvaluatedFrom(r.pid, i, k + 1)

EvaluatedFrom(c, i, k) ==
    IF k > Len(evalLog) THEN pid_controllers[i] = c
    ELSE AppliedAs(PIDCompute(c, evalLog[k].y[i], evalLog[k].t), i, k)

NonDecreasing(calls) ==
    \A k \in 1..(Len(calls) - 1) : RLe(calls[k][2], calls[k + 1][2])

Ended == pc \in {"raised", "returned"}

\* C2: every configuration failure is raised before the integration starts:
\* a run that ended in an error has evaluated the derivative function not
\* once and has no trajectory and no result.
C2_FailuresBeforeIntegration ==
    pc = "raised" => (evalLog = <<>> /\ times = <<>> /\ result = None)

\* the run's other arguments are valid: N >= 1, an N x N inductance file,
\* one resistance source or N of them, initial currents absent or N long
OtherwiseValid ==
    /\ cfg.n_circuits >= 1
    /\ load_inductance_matrix(cfg.inductance, cfg.n_circuits).ok
    /\ cfg.resistance_csvs.kind \in {"str", "list"}
    /\ Len(cfg.resistance_csvs.files) \in {1, cfg.n_circuits}
    /\ cfg.initial_currents # None => Len(cfg.initial_currents) = cfg.n_circuits

\* C3: a run in mode 'none' never returns a result; with otherwise valid
\* arguments it ends with the unsupported-mode error, and every derivative
\* evaluation it made used zero applied voltage for every circuit.
C3_NoDriveEndsUnsupported ==
    (cfg.control_mode = "none" /\ OtherwiseValid) =>
        /\ pc # "returned" /\ result = None
        /\ pc = "raised" => exc = [type |-> "RuntimeError", what |-> "control_mode"]
        /\ \A k \in 1..Len(evalLog) : \A i \in 1..cfg.n_circuits :
              evalLog[k].voltages[i] = Zero

\* C4: in pid mode the reconstruction uses N new controllers (first call
\* pending, zero integral), calls compute on circuit i's controller once per
\* sample j with (current_i[j], times[j]) in increasing j, and reports the
\* output and setpoint of that j-th call as voltages[i][j], setpoints[i][j].
C4_ReconstructionReplay ==
    pid_controllers_reset # None =>
        /\ \A i \in 1..cfg.n_circuits :
              /\ callsRec[i] = <<>> =>
                    /\ pid_controllers_reset[i].first_call
                    /\ pid_controllers_reset[i].integral = Zero
              /\ Len(callsRec[i]) <= Len(times)
              /\ \A j \in 1..Len(callsRec[i]) :
                    callsRec[i][j] = <<sol_y[j][i], times[j]>>
              /\ pc \in {"assemble", "returned"} => Len(callsRec[i]) = Len(times)
        /\ \A i \in 1..Len(all_voltages) :
              /\ Len(all_voltages[i]) = Len(callsRec[i])
              /\ Len(all_setpoints[i]) = Len(callsRec[i])
              /\ ReplayedFrom(FreshController(i), i, 1)

\* a returned pid run of two circuits whose solver evaluated the derivative
\* more often than the trajectory has samples, so that the integration-time
\* controllers are not in the state of the reconstruction ones
C4_Witness ==
    /\ pc = "returned" /\ cfg.control_mode = "pid" /\ cfg.n_circuits = 2
    /\ Len(times) = 2
    /\ Len(evalLog) > Len(times)
    /\ pid_controllers # pid_controllers_reset
    /\ result.voltages[2][2] # result.voltages[2][1]

\* C5: for every controller, successive compute calls come with
\* non-decreasing time, in the integration loop (rejected trial steps
\* included) and in the reconstruction replay.
C5_ComputeTimesNonDecreasing ==
    /\ \A i \in 1..Len(callsInt) : NonDecreasing(callsInt[i])
    /\ \A i \in 1..Len(callsRec) : NonDecreasing(callsRec[i])

\* C6: in pid mode every derivative evaluation that returns calls compute
\* once on each of the N controllers with (current[i], t), so each
\* controller has advanced once per evaluation; in voltage and no-drive
\* runs an evaluation touches no controller and its applied voltages depend
\* on its arguments alone.
C6_OneComputePerEvaluation ==
    pc \in {"integrating", "solved"} =>
        IF cfg.control_mode = "pid"
        THEN \A i \in 1..cfg.n_circuits :
                /\ callsInt[i] = [k \in 1..Len(evalLog) |->
                                     <<evalLog[k].y[i], evalLog[k].t>>]
                /\ EvaluatedFrom(FreshController(i), i, 1)
        ELSE /\ pid_controllers = None
             /\ callsInt = <<>>
             /\ \A k \in 1..Len(evalLog) : \A i \in 1..cfg.n_circuits :
                   evalLog[k].voltages[i] =
                      (IF cfg.control_mode = "voltage"
                       THEN Interp(voltage_funcs[i], evalLog[k].t)
                       ELSE Zero)

\* a two-circuit pid run whose solver evaluated a trial step and rejected it
C6_Witness ==
    /\ pc = "integrating" /\ cfg.control_mode = "pid" /\ cfg.n_circuits = 2
    /\ Len(evalLog) = 3 /\ Len(times) = 1 /\ ~in_attempt
    /\ evalLog[3].voltages # evalLog[2].voltages

IntegrationOver == pc \in {"solved", "replay", "assemble", "returned", "raised"}

\* C7: every controller serves one circuit in one phase: the integration-time
\* controllers are not called once the integration has ended, the
\* reconstruction controllers do not exist (and are not called) before that,
\* and a compute call on circuit i's controller leaves every other
\* controller as it was.
C7_ControllersConfined ==
    [][ /\ IntegrationOver =>
              (pid_controllers' = pid_controllers /\ callsInt' = callsInt)
        /\ ~IntegrationOver =>
              (pid_controllers_reset' = None /\ callsRec' = <<>>)
        /\ (pid_controllers_reset # None /\ pid_controllers_reset' # None) =>
              \A i \in 1..cfg.n_circuits :
                 pid_controllers_reset'[i] # pid_controllers_reset[i] =>
                    /\ i = ri
                    /\ callsRec'[i] # callsRec[i]
                    /\ pid_controllers_reset'[i] =
                          PIDCompute(pid_controllers_reset[i],
                                     sol_y[rj][ri], times[rj]).pid
        /\ (pid_controllers # None /\ pid_controllers' # pid_controllers) =>
              \A i \in 1..cfg.n_circuits :
                 pid_controllers'[i] =
                    PIDCompute(pid_controllers[i], stage_y'[i], stage_t').pid
      ]_vars

\* a two-circuit pid run has returned after replaying two samples or more
C7_Witness ==
    /\ pc = "returned" /\ cfg.control_mode = "pid" /\ cfg.n_circuits = 2
    /\ Len(times) >= 2
    /\ Len(callsRec[1]) = Len(times) /\ Len(callsRec[2]) = Len(times)
    /\ Len(callsInt[2]) = Len(evalLog)

\* the run's arguments are valid but for the number of resistance sources:
\* N >= 1, an N x N inductance file, initial currents absent or N long, a
\* driven mode whose input file has a column per circuit
ValidButResistance ==
    /\ cfg.n_circuits >= 1
    /\ load_inductance_matrix(cfg.inductance, cfg.n_circuits).ok
    /\ cfg.resistance_csvs.kind \in {"str", "list"}
    /\ cfg.initial_currents # None => Len(cfg.initial_currents) = cfg.n_circuits
    /\ cfg.control_mode \in {"pid", "voltage"}
    /\ load_electrical_inputs(cfg.input_columns, cfg.n_circuits,
                              cfg.control_mode).ok

\* C13: a run is accepted with one resistance source (shared by all
\* circuits) or with N of them, and for any N >= 1 it then completes without
\* an error; with any other number of sources it fails with ValueError
\* before the integration starts.
C13_SharedOrPerCircuitResistance ==
    ValidButResistance =>
        IF Len(cfg.resistance_csvs.files) \in {1, cfg.n_circuits}
        THEN pc # "raised"
        ELSE pc # "called" =>
                /\ pc = "raised" /\ exc.type = "ValueError"
                /\ evalLog = <<>> /\ times = <<>>

\* C14: the derivative function fails with the configuration error exactly
\* when the number of resistance functions is neither 1 nor N; with one
\* shared function every circuit's resistance is that function at
\* |current[i]|, with N functions it is function i at |current[i]|.
C14_DerivativeResistanceCardinality ==
    /\ (pc = "raised" /\ exc = [type |-> "ValueError", what |-> "R_funcs"])
           => Len(R_funcs) \notin {1, cfg.n_circuits}
    /\ \A k \in 1..Len(evalLog) : \A i \in 1..cfg.n_circuits :
           evalLog[k].resistances[i] =
               Interp(R_funcs[IF Len(R_funcs) = 1 THEN 1 ELSE i],
                      RAbs(evalLog[k].y[i]))

\* C15: a run raises ValueError when n_circuits < 1 and when
\* initial_currents is given with a length other than n_circuits, in both
\* cases before any evaluation; when initial_currents is absent, setup leaves
\* the all-zero vector of length n_circuits and the integration starts from it.
C15_ArgumentValidation ==
    pc # "called" =>
        /\ cfg.n_circuits < 1 =>
               /\ pc = "raised" /\ evalLog = <<>>
               /\ exc = [type |-> "ValueError", what |-> "n_circuits"]
        /\ (cfg.initial_currents # None
               /\ Len(cfg.initial_currents) # cfg.n_circuits) =>
               /\ pc = "raised" /\ evalLog = <<>>
               /\ exc.type = "ValueError"
        /\ cfg.initial_currents = None =>
               /\ initial_currents # None =>
                      initial_currents = [i \in 1..cfg.n_circuits |-> Zero]
               /\ times # <<>> =>
                      /\ times[1] = TStart
                      /\ sol_y[1] = [i \in 1..cfg.n_circuits |-> Zero]
                      /\ evalLog[1].y = sol_y[1]

\* two circuits, no initial currents given, and a step taken from zero
C15_Witness ==
    /\ cfg.initial_currents = None /\ cfg.n_circuits = 2
    /\ Len(times) = 2
    /\ sol_y[1] = <<Zero, Zero>> /\ sol_y[2] # sol_y[1]

\* N series of T values each
Shaped(rows, N, T) ==
    /\ Len(rows) = N
    /\ \A i \in 1..N : Len(rows[i]) = T

Dot(u, v) ==
    IF Len(u) = 1 THEN RMul(u[1], v[1])
    ELSE RAdd(RMul(u[1], v[1]), RMul(u[2], v[2]))

MatVec(A, x) == [i \in 1..Len(A) |-> Dot(A[i], x)]

\* rate of change of every circuit's current between samples j - 1 and j of
\* a returned result
BackwardDifference(r, j) ==
    [k \in 1..r.n_circuits |->
        RDiv(RSub(r.individual_currents[k][j], r.individual_currents[k][j - 1]),
             RSub(r.times[j], r.times[j - 1]))]

\* C26: in pid and in voltage mode the returned inductive voltage of circuit
\* i is 0 at the first sample and, at every later sample j, the sum over all
\* circuits k of L[i][k] * (current_k[j] - current_k[j-1]) /
\* (times[j] - times[j-1]); the returned resistance of circuit i at sample
\* j is its resistance function at |current_i[j]|.
C26_InductiveVoltageAndResistance ==
    pc = "returned" =>
        \A i \in 1..result.n_circuits : \A j \in 1..Len(result.times) :
            /\ result.inductive_voltages[i][j] =
                  IF j = 1 THEN Zero
                  ELSE Dot(result.L_matrix[i], BackwardDifference(result, j))
            /\ result.individual_resistances[i][j] =
                  Interp(R_funcs[IF Len(R_funcs) = 1 THEN 1 ELSE i],
                         RAbs(result.individual_currents[i][j]))

\* two coupled circuits whose currents both moved between two samples
C26_Witness ==
    /\ pc = "returned" /\ result.n_circuits = 2
    /\ result.L_matrix[1][2] # Zero
    /\ \E j \in 2..Len(result.times) :
          /\ BackwardDifference(result, j)[2] # Zero
          /\ result.inductive_voltages[1][j] # Zero
    /\ \E j \in 1..Len(result.times) :
          result.individual_resistances[1][j] # result.individual_resistances[2][j]

\* applied_voltage - resistance * current of one evaluation
NetVoltage(e) ==
    [i \in 1..Len(e.y) |->
        RSub(e.voltages[i], RMul(e.resistances[i], e.y[i]))]

\* x is the least-squares solution of smallest norm of A x = b, A singular
\* of order 2: the normal equations hold and x is orthogonal to the null
\* vectors (A12, -A11) and (A22, -A21) of A
LeastSquares(A, x, b) ==
    /\ MatVec(Transpose(A), MatVec(A, x)) = MatVec(Transpose(A), b)
    /\ Dot(x, <<A[1][2], RNeg(A[1][1])>>) = Zero
    /\ Dot(x, <<A[2][2], RNeg(A[2][1])>>) = Zero

\* the dI/dt of evaluation e: the least-squares solution when L is singular,
\* the exact solution of L dI/dt = applied_voltage - resistance * current
\* when it is not
SolvesSystem(e) ==
    IF Len(L_matrix) = 2
          /\ RMul(L_matrix[1][1], L_matrix[2][2])
                = RMul(L_matrix[1][2], L_matrix[2][1])
    THEN LeastSquares(L_matrix, e.di_dt, NetVoltage(e))
    ELSE MatVec(L_matrix, e.di_dt) = NetVoltage(e)

\* C22: with a singular inductance matrix the derivative function does not
\* fail: the evaluation returns the least-squares (pseudo-inverse) solution
\* and the run goes on; with a non-singular matrix the returned dI/dt
\* solves L dI/dt = applied_voltage - resistance * current exactly.  Stated
\* of the latest evaluation while the integration runs: the log only grows,
\* so every evaluation is the latest one in some state.
C22_SingularFallsBack ==
    /\ (pc \in {"integrating", "solved"} /\ evalLog # <<>>) =>
          SolvesSystem(evalLog[Len(evalLog)])
    /\ (pc = "raised" /\ evalLog # <<>>) => exc.type # "LinAlgError"

\* a run on a singular matrix that returned, with a non-zero derivative
C22_Witness ==
    /\ pc = "returned" /\ cfg.n_circuits = 2
    /\ IsSingular(L_matrix)
    /\ Len(evalLog) >= 2
    /\ evalLog[2].di_dt # <<Zero, Zero>>

\* ------------------------------------------------- controller harness
\* Two controllers constructed with identical arguments.  Instance 1 runs
\* each call as it is issued; instance 2 is fed the same call before the
\* next one is issued.
ProcessValues == {Rat(0), Rat(100)}

RampTable == [xs |-> <<Tick(0), Tick(2)>>, ys |-> <<Rat(10), Rat(200)>>]

SetpointChoices ==
    { <<None, Rat(10)>>, <<None, None>>, <<(<<RampTable>>), None>> }
LimitChoices == { None, <<Rat(-10), Rat(10)>>, <<Rat(-100), Rat(100000)>> }
TStartChoices == { None, Tick(0), Tick(2) }

ComputeOp(pv, t) == [t |-> t, pv |-> pv, op |-> "compute"]
ResetOp == [op |-> "reset"]

\* one call on a controller: its new record and what the call returned
Apply(c, o) ==
    IF o.op = "compute"
    THEN LET r == PIDCompute(c, o.pv, o.t)
         IN  [pid |-> r.pid, ret |-> <<r.output, r.setpoint>>]
    ELSE [pid |-> PIDReset(c), ret |-> None]

InitPID ==
    /\ \E sp \in SetpointChoices, lim \in LimitChoices, ts \in TStartChoices :
          pids = [k \in 1..2 |-> PIDInit(sp[1], sp[2], lim, ts)]
    /\ log = <<>>
    /\ outs = [k \in 1..2 |-> <<>>]
    /\ SimIdle
    /\ FnIdle

Issue(o) ==
    /\ Len(log) < MaxCalls
    /\ Len(outs[2]) = Len(log)
    /\ LET r == Apply(pids[1], o)
       IN  /\ pids' = StoreInstance(pids, 1, r.pid)
           /\ outs' = [outs EXCEPT ![1] = Append(@, r.ret)]
    /\ log' = Append(log, o)
    /\ UNCHANGED <<simvars, fnvars>>

IssueCompute ==
    \E pv \in ProcessValues, k \in 0..MaxTick : Issue(ComputeOp(pv, Tick(k)))

IssueReset == Issue(ResetOp)

Replay ==
    /\ Len(outs[2]) < Len(log)
    /\ LET r == Apply(pids[2], log[Len(outs[2]) + 1])
       IN  /\ pids' = StoreInstance(pids, 2, r.pid)
           /\ outs' = [outs EXCEPT ![2] = Append(@, r.ret)]
    /\ UNCHANGED <<log, simvars, fnvars>>

NextPID == IssueCompute \/ IssueReset \/ Replay

SpecPID == InitPID /\ [][NextPID]_vars

\* ------------------------------------------------------ function harness
\* get_pid_params, load_inductance_matrix, the interpolation functions the
\* loaders build and the derivative function, each applied to arguments
\* drawn from small sets
GainInputs ==
    { Rat(-5), Rat(0), Rat(59), Rat(60), Frac(601, 10), Rat(61),
      Rat(800), Frac(8001, 10), Rat(900) }

\* 1 + 5e-9: differs from 1 by less than the tolerance of np.allclose
NearOne == Frac(200000001, 200000000)

MatrixEntries == {Rat(-1), Rat(0), Rat(1), Rat(2)}

MatrixFiles ==
    UNION { [1..n -> [1..n -> MatrixEntries]] : n \in 1..2 }
    \cup { << <<Rat(2), Rat(1)>>, <<NearOne, Rat(2)>> >>,
           << <<Rat(1), NearOne>>, <<Rat(1), Rat(1)>> >>,
           << <<Rat(1), Rat(2)>> >>,
           << <<Rat(1)>>, <<Rat(2)>> >> }

SampleXs ==
    { <<Rat(0)>>, <<Rat(0), Rat(100)>>, <<Rat(0), Rat(50), Rat(100)>>,
      <<Rat(-10), Rat(0), Frac(1, 2)>> }

SampleYs == {Rat(0), Rat(1), Frac(3, 2)}

\* the tables of files whose rows are sorted by strictly increasing x
Tables ==
    UNION { { [xs |-> sx, ys |-> sy] : sy \in [1..Len(sx) -> SampleYs] } :
            sx \in SampleXs }

EvalPoints ==
    { Rat(-20), Rat(-10), Rat(0), Frac(1, 2), Rat(25), Rat(50), Rat(75),
      Rat(100), Rat(150) }

InitFn ==
    /\ PidIdle
    /\ SimIdle
    /\ FnIdle

Returns(fn, args, value) ==
    /\ fcall' = [fn |-> fn, args |-> args]
    /\ fret' = value
    /\ UNCHANGED <<pidvars, simvars>>

CallGains ==
    \E x \in GainInputs, k \in 0..MaxTick :
        Returns("get_pid_params", <<x, Tick(k)>>, get_pid_params(x, Tick(k)))

CallLoadInductance ==
    \E M \in MatrixFiles, n \in 1..3 :
        Returns("load_inductance_matrix", <<M, n>>,
                load_inductance_matrix(M, n))

CallInterp ==
    \E tab \in Tables, x \in EvalPoints :
        Returns("interp1d", <<tab, x>>, Interp(tab, x))

\* the derivative function called directly: N circuits with their
\* inductance matrix and resistance functions, and for the voltage functions
\* and for the controllers either nothing or a list of one or two
DerivativeInductance(n) ==
    IF n = 1 THEN << <<Rat(1)>> >> ELSE << <<Rat(2), Rat(1)>>, <<Rat(1), Rat(2)>> >>

ResistanceTable == [xs |-> <<Rat(0), Rat(100)>>, ys |-> <<Rat(1), Frac(3, 2)>>]
VoltageTable == [xs |-> <<Tick(0), Tick(2)>>, ys |-> <<Rat(1), Rat(3)>>]

VoltageLists == {None} \cup { [i \in 1..m |-> VoltageTable] : m \in 1..2 }

ControllerLists ==
    {None} \cup { [i \in 1..m |-> PIDInit(<<RampTable>>, None, SimOutputLimits, None)] :
                    m \in 1..2 }

CallDerivative ==
    \E n \in 1..2, k \in 0..MaxTick, vfuncs \in VoltageLists,
       pidcs \in ControllerLists :
        \E currents \in StateVectors(n) :
            Returns("magnetically_coupled_rl_system",
                    <<Tick(k), currents, DerivativeInductance(n),
                      [i \in 1..n |-> ResistanceTable], n, vfuncs, pidcs>>,
                    magnetically_coupled_rl_system(
                        Tick(k), currents, DerivativeInductance(n),
                        [i \in 1..n |-> ResistanceTable], n, vfuncs, pidcs))

NextFn == CallGains \/ CallLoadInductance \/ CallInterp \/ CallDerivative

SpecFn == InitFn /\ [][NextFn]_vars

\* ------------------------------------------------------------- claims
FreshOf(c) == PIDInit(c.setpoint_func, c.fixed_setpoint, c.output_limits, c.t_start)

\* C1: with output_limits = (lo, hi), lo <= hi, every compute call returns
\* an output in [lo, hi], whatever compute and reset calls came before it.
C1_OutputWithinLimits ==
    \A k \in 1..2 : \A j \in 1..Len(outs[k]) :
        (log[j].op = "compute" /\ pids[k].output_limits # None) =>
            /\ RLe(pids[k].output_limits[1], outs[k][j][1])
            /\ RLe(outs[k][j][1], pids[k].output_limits[2])

\* a compute after a reset whose raw output is below lo and is returned as lo
C1_Witness ==
    /\ Len(log) = 3
    /\ log[1].op = "compute" /\ log[2].op = "reset" /\ log[3].op = "compute"
    /\ pids[1].output_limits # None
    /\ outs[1][3][1] = pids[1].output_limits[1]
    /\ outs[1][1][1] = pids[1].output_limits[2]

C9_ResetRestoresFreshState ==
    \A k \in 1..2 :
        (Len(outs[k]) >= 1 /\ log[Len(outs[k])].op = "reset") =>
            /\ pids[k].prev_error = Zero
            /\ pids[k].integral = Zero
            /\ pids[k].prev_Ki = Zero
            /\ pids[k].first_call
            /\ pids[k].prev_time =
                 (IF pids[k].t_start # None THEN pids[k].t_start ELSE Zero)
            /\ FreshOf(pids[k]).setpoint_func = pids[k].setpoint_func
            /\ FreshOf(pids[k]).output_limits = pids[k].output_limits

\* C10: after any calls followed by reset(), the next compute(pv, t) returns
\* what the first compute(pv, t) of a fresh controller with the same
\* setpoint source and output limits returns.
C10_ResetThenComputeAsFresh ==
    \A k \in 1..2 : \A j \in 2..Len(outs[k]) :
        (log[j - 1].op = "reset" /\ log[j].op = "compute") =>
            LET r == PIDCompute(FreshOf(pids[k]), log[j].pv, log[j].t)
            IN  outs[k][j] = <<r.output, r.setpoint>>

\* a compute that moved the integral, a reset, then a compute
C10_Witness ==
    /\ Len(log) = 3
    /\ log[1].op = "compute" /\ log[2].op = "reset" /\ log[3].op = "compute"
    /\ log[1].pv # log[3].pv
    /\ log[3].t # Zero
    /\ outs[1][3] # outs[1][1]
    /\ pids[1].output_limits = None

\* C12: a controller is uninitialized (first_call set) on construction and
\* after every reset; a compute call, the first one or a later one, leaves it
\* running (first_call cleared), and it stays so until the next reset: at any
\* moment the flag is set exactly when the instance has served no call yet or
\* the last call it served was a reset.
C12_FirstCallStateMachine ==
    \A k \in DOMAIN pids :
        pids[k].first_call <=>
            (Len(outs[k]) = 0 \/ log[Len(outs[k])].op = "reset")

\* two computes in a row, then a reset that re-arms the flag
C12_Witness ==
    /\ Len(log) = 3 /\ Len(outs[2]) = 3
    /\ log[1].op = "compute" /\ log[2].op = "compute" /\ log[3].op = "reset"
    /\ pids[1].first_call /\ pids[2].first_call

\* ------------------------------------------------- function claims
Called(fn) == fcall # None /\ fcall.fn = fn

\* C11: get_pid_params(x, t) returns the low gains (5, 0.2, 0) for every
\* x <= 60 and the mid gains (12, 1, 0) for every x > 60, up to 800 and above
\* it alike, whatever t is; no call returns anything else.
C11_GainSchedule ==
    Called("get_pid_params") =>
        fret = IF RLe(fcall.args[1], Rat(60))
               THEN <<Rat(5), Frac(2, 10), Zero>>
               ELSE <<Rat(12), Rat(1), Zero>>

C11_Witness ==
    /\ Called("get_pid_params")
    /\ RLt(Rat(800), fcall.args[1])
    /\ fcall.args[2] = Tick(MaxTick)
    /\ fret = <<Rat(12), Rat(1), Zero>>


Average(M) ==
    [i \in 1..Len(M) |-> [j \in 1..Len(M) |->
        RDiv(RAdd(M[i][j], M[j][i]), Rat(2))]]

\* the largest |M[i][j] - M[j][i]| is at most eps
AsymmetryWithin(M, eps) ==
    \A i, j \in 1..Len(M) : RLe(RAbs(RSub(M[i][j], M[j][i])), eps)

Loaded == Called("load_inductance_matrix") /\ fret.ok

\* C17 as stated: load_inductance_matrix returns (M + M^T)/2 for every N x N
\* matrix M that is not symmetric and M itself when M is symmetric, so the
\* matrix it returns is always exactly symmetric.
C17_ExactSymmetrization ==
    Loaded =>
        /\ fret.L = IF fcall.args[1] = Transpose(fcall.args[1])
                    THEN fcall.args[1]
                    ELSE Average(fcall.args[1])
        /\ fret.L = Transpose(fret.L)

\* C17, amended: symmetry is judged by np.allclose(M, M^T, rtol=1e-10), that
\* is up to 1e-8 + 1e-10 |M[j][i]| per entry.  A matrix within 1e-8 of its
\* transpose is returned as it is, asymmetry included; a matrix (entries up
\* to 100 here) with an entry 1e-3 or more away from its mirror is returned
\* as (M + M^T)/2, which is exactly symmetric; what is returned is in every
\* case symmetric within 2e-8.
C17_SymmetrizationWithinTolerance ==
    Loaded =>
        /\ AsymmetryWithin(fcall.args[1], Frac(1, 100000000)) =>
               fret.L = fcall.args[1]
        /\ ~AsymmetryWithin(fcall.args[1], Frac(1, 1000)) =>
               /\ fret.L = Average(fcall.args[1])
               /\ fret.L = Transpose(fret.L)
        /\ AsymmetryWithin(fret.L, Frac(2, 100000000))

\* a matrix whose off-diagonal entries differ by 5e-9 comes back unchanged
C17_Witness ==
    /\ Loaded /\ fcall.args[2] = 2
    /\ fcall.args[1][1][2] # fcall.args[1][2][1]
    /\ fret.L = fcall.args[1]
    /\ fret.L # Transpose(fret.L)


RightShape(M, n) == Len(M) = n /\ \A i \in 1..Len(M) : Len(M[i]) = n

\* x^T A x for a matrix of one or two circuits
QuadraticForm(A, x) ==
    IF Len(A) = 1 THEN RMul(A[1][1], Rat(x[1] * x[1]))
    ELSE RAdd(RAdd(RMul(A[1][1], Rat(x[1] * x[1])),
                   RMul(RAdd(A[1][2], A[2][1]), Rat(x[1] * x[2]))),
              RMul(A[2][2], Rat(x[2] * x[2])))

\* A is not positive-definite: along some direction its quadratic form is
\* negative (a matrix that is singular and no worse is left out, the sign of
\* its computed eigenvalue being a matter of rounding)
NotPositiveDefinite(A) ==
    \E x \in [1..Len(A) -> {-1, 0, 1}] : RLt(QuadraticForm(A, x), Zero)

\* C18: load_inductance_matrix fails (ValueError) exactly when the matrix
\* read is not n_circuits x n_circuits; a matrix of the right shape that is
\* not positive-definite does not make it fail: the matrix is returned,
\* symmetrized as for any other, and only a warning is given.
C18_ShapeFatalDefinitenessNot ==
    Called("load_inductance_matrix") =>
        /\ fret.ok <=> RightShape(fcall.args[1], fcall.args[2])
        /\ (fret.ok /\ NotPositiveDefinite(fret.L)) =>
               /\ fret.warned
               /\ fret.L \in {fcall.args[1], Average(fcall.args[1])}

\* an asymmetric 2x2 matrix whose average is not positive-definite
C18_Witness ==
    /\ Called("load_inductance_matrix") /\ fcall.args[2] = 2
    /\ fret.ok /\ fret.warned
    /\ fret.L # fcall.args[1]
    /\ NotPositiveDefinite(fret.L)


\* C19: a function table built from samples sorted by x returns y_k when
\* evaluated at a sample x_k, the y of the minimum-x sample at any x below
\* the minimum, and the y of the maximum-x sample at any x above the maximum;
\* outside the sampled domain an evaluation returns a value, it never fails.
C19_TableEvaluation ==
    Called("interp1d") =>
        /\ \A k \in 1..Len(fcall.args[1].xs) :
               fcall.args[2] = fcall.args[1].xs[k] =>
                   fret = fcall.args[1].ys[k]
        /\ RLt(fcall.args[2], fcall.args[1].xs[1]) =>
               fret = fcall.args[1].ys[1]
        /\ RLt(fcall.args[1].xs[Len(fcall.args[1].xs)], fcall.args[2]) =>
               fret = fcall.args[1].ys[Len(fcall.args[1].ys)]

\* a table of three samples evaluated above its last one
C19_Witness ==
    /\ Called("interp1d")
    /\ Len(fcall.args[1].xs) = 3
    /\ RLt(fcall.args[1].xs[3], fcall.args[2])
    /\ fret = fcall.args[1].ys[3]
    /\ fret # fcall.args[1].ys[2] /\ fret # fcall.args[1].ys[1]

\* ------------------------------------------- controller claims, continued
\* the latest call on instance k, if it served one, is a compute
LastIsCompute(k) == Len(outs[k]) >= 1 /\ log[Len(outs[k])].op = "compute"

\* C21: compute never raises, whatever compute and reset calls came before
\* on a controller constructed with or without a start time: a controller
\* past its first call holds a defined prev_time, the Ki selected for a call
\* is never 0, whether the call was made or could come next, and the call
\* made returned an output and a setpoint.
C21_ComputeNeverRaises ==
    /\ \A k \in 1..2 :
          /\ ~pids[k].first_call => pids[k].prev_time # None
          /\ LastIsCompute(k) =>
                /\ outs[k][Len(outs[k])][1] # None
                /\ outs[k][Len(outs[k])][2] # None
    /\ \A pv \in ProcessValues, t \in 0..MaxTick :
          get_pid_params(pv, Tick(t))[2] # Zero

\* no start time given; a compute, a reset and a compute again have returned
C21_Witness ==
    /\ pids[1].t_start = None
    /\ Len(log) = 3 /\ Len(outs[2]) = 3
    /\ log[1].op = "compute" /\ log[2].op = "reset" /\ log[3].op = "compute"
    /\ outs[2][3][1] # None
    /\ pids[2].prev_time = log[3].t

\* Instance 1 has served the latest call of the log, a compute, and instance
\* 2 has not yet: built alike and fed the same calls before it, instance 2
\* holds what instance 1 held when the call came in.  Every compute call of
\* every call sequence is the latest call in one such state.
JustComputed ==
    /\ Len(log) >= 1
    /\ Len(outs[2]) < Len(log)
    /\ log[Len(log)].op = "compute"

\* the dt the claim gives the j-th call of the log: 0.001 on the first call
\* after construction or reset, else max(time - previous time, 0.001), the
\* previous time being the time argument of the call just before
ClaimedDt(j) ==
    IF j = 1 \/ log[j - 1].op = "reset" THEN Frac(1, 1000)
    ELSE RMax(RSub(log[j].t, log[j - 1].t), Frac(1, 1000))

\* C23: dt is 0.001 on the first compute after construction or reset,
\* whatever the time argument; on any other call it is
\* max(time - previous_time, 0.001) with previous_time the time argument of
\* the compute call just before; so dt >= 0.001 on every call, also when the
\* time stands still or goes backwards, and the derivative term's dt <= 0
\* guard is never taken.
C23_TimeStep ==
    JustComputed =>
        /\ Dt(pids[2], log[Len(log)].t) = ClaimedDt(Len(log))
        /\ RLe(Frac(1, 1000), Dt(pids[2], log[Len(log)].t))

\* a first call at a late time, then a call at an earlier time
C23_Witness ==
    /\ JustComputed
    /\ Len(log) = 2
    /\ log[1].op = "compute"
    /\ log[1].t = Tick(MaxTick) /\ log[2].t = Tick(0)
    /\ pids[1].t_start = Tick(0)
    /\ Dt(pids[2], log[2].t) = Frac(1, 1000)

\* the setpoint, the error and the gains of call j on instance k
SetpointAt(k, j) ==
    IF pids[k].setpoint_func # None
    THEN Interp(pids[k].setpoint_func[1], log[j].t)
    ELSE IF pids[k].fixed_setpoint # None THEN pids[k].fixed_setpoint
    ELSE Zero

ErrorAt(k, j) == RSub(SetpointAt(k, j), log[j].pv)

KpAt(j) == IF RLe(log[j].pv, Rat(60)) THEN Rat(5) ELSE Rat(12)
KiAt(j) == IF RLe(log[j].pv, Rat(60)) THEN Frac(2, 10) ELSE Rat(1)

\* the accumulator after a call, by the claim's order: rescale by
\* (previous Ki / new Ki) when the two differ by more than 0.01, then add
\* error * dt
ClaimedAccumulator(acc, prevKi, Ki, error, dt) ==
    RAdd(IF RLt(Frac(1, 100), RAbs(RSub(Ki, prevKi)))
         THEN RDiv(RMul(acc, prevKi), Ki)
         ELSE acc,
         RMul(error, dt))

\* the accumulator the claim gives instance 1 after the latest call
ClaimedIntegral ==
    ClaimedAccumulator(pids[2].integral, pids[2].prev_Ki, KiAt(Len(log)),
                       ErrorAt(1, Len(log)), ClaimedDt(Len(log)))

\* C24: on each compute call the accumulator is first multiplied by
\* (previous Ki / new Ki) if the new Ki differs from the previous call's Ki
\* by more than 0.01, then error * dt is added, and the output's integral
\* term is the new Ki times the result (the derivative gain being 0, an
\* unclamped output is Kp * error plus that term).
C24_IntegralUpdateOrder ==
    JustComputed =>
        /\ pids[1].integral = ClaimedIntegral
        /\ pids[1].output_limits = None =>
              outs[1][Len(log)][1] =
                  RAdd(RMul(KpAt(Len(log)), ErrorAt(1, Len(log))),
                       RMul(KiAt(Len(log)), ClaimedIntegral))

\* two calls in different gain tiers on an unclamped controller
C24_Witness ==
    /\ JustComputed
    /\ Len(log) = 2
    /\ log[1].op = "compute"
    /\ log[1].pv # log[2].pv
    /\ pids[1].output_limits = None
    /\ pids[1].setpoint_func # None
    /\ log[1].t = Tick(MaxTick)
    /\ pids[2].integral # Zero
    /\ pids[1].integral # pids[2].integral
    /\ outs[1][2][1] # RMul(KpAt(2), ErrorAt(1, 2))

\* after its last call, a compute, instance k holds that call's error, time
\* and gains, whatever the clamp did to the output
PersistedBy(k) ==
    LastIsCompute(k) =>
        /\ pids[k].prev_error =
              RSub(outs[k][Len(outs[k])][2], log[Len(outs[k])].pv)
        /\ pids[k].prev_time = log[Len(outs[k])].t
        /\ pids[k].prev_Ki = KiAt(Len(outs[k]))
        /\ pids[k].Kp = KpAt(Len(outs[k]))
        /\ pids[k].Ki = KiAt(Len(outs[k]))
        /\ pids[k].Kd = Zero

\* C25 as stated: after compute(pv, t) the controller holds previous_error =
\* setpoint(t) - pv, previous_time = t, previous Ki = the Ki selected for pv
\* and the gains selected for pv as its stored gains, clamped output or not;
\* the setpoint returned is the setpoint source at t, or the fixed constant
\* when no source was supplied.
C25_StatePersisted ==
    \A k \in 1..2 :
        /\ PersistedBy(k)
        /\ LastIsCompute(k) =>
              outs[k][Len(outs[k])][2] =
                  IF pids[k].setpoint_func # None
                  THEN Interp(pids[k].setpoint_func[1], log[Len(outs[k])].t)
                  ELSE pids[k].fixed_setpoint

\* C25, amended: the same, and the setpoint returned is the setpoint source
\* at t, else the fixed constant when one was given, else 0.0 (a controller
\* built with neither a source nor a constant regulates to zero).
C25_StatePersistedDefaultZero ==
    \A k \in 1..2 :
        /\ PersistedBy(k)
        /\ LastIsCompute(k) =>
              outs[k][Len(outs[k])][2] =
                  IF pids[k].setpoint_func # None
                  THEN Interp(pids[k].setpoint_func[1], log[Len(outs[k])].t)
                  ELSE IF pids[k].fixed_setpoint # None
                  THEN pids[k].fixed_setpoint
                  ELSE Zero

\* a controller built with neither source nor constant, after a clamped call
C25_Witness ==
    /\ Len(outs[1]) = 2
    /\ log[1].op = "compute" /\ log[2].op = "compute"
    /\ pids[1].setpoint_func = None /\ pids[1].fixed_setpoint = None
    /\ pids[1].output_limits # None
    /\ outs[1][2] = <<pids[1].output_limits[1], Zero>>
    /\ pids[1].prev_error = RNeg(log[2].pv) /\ log[2].pv # Zero
    /\ pids[1].prev_time = log[2].t

\* the latest call is a compute past the first one on which the Ki selected
\* differs from the previous Ki by more than 0.01
TierSwitched ==
    /\ JustComputed
    /\ ~pids[2].first_call
    /\ RLt(Frac(1, 100), RAbs(RSub(KiAt(Len(log)), pids[2].prev_Ki)))

\* C27: on a compute call past the first where the gain tier switches, the
\* rescale keeps Ki * accumulator (new Ki * rescaled accumulator = previous
\* Ki * old accumulator), so the integral term of the output changes by
\* new Ki * error * dt only: the product after the call is the product
\* before it plus new Ki * error * dt.
C27_RescaleKeepsIntegralTerm ==
    TierSwitched =>
        RMul(KiAt(Len(log)), pids[1].integral) =
            RAdd(RMul(pids[2].prev_Ki, pids[2].integral),
                 RMul(KiAt(Len(log)),
                      RMul(ErrorAt(1, Len(log)), ClaimedDt(Len(log)))))

\* a call in the low tier that built up the accumulator, then one in the
\* mid tier
C27_Witness ==
    /\ TierSwitched
    /\ Len(log) = 2
    /\ log[1].op = "compute"
    /\ RLe(log[1].pv, Rat(60)) /\ RLt(Rat(60), log[2].pv)
    /\ pids[2].integral # Zero
    /\ pids[1].fixed_setpoint # None

\* call j of the log, leaving accumulator acc behind on instance 1, returned
\* a clamped output: limits are set and P + I lies outside them (Kd is 0 in
\* every tier)
Saturated(j, acc) ==
    /\ log[j].op = "compute"
    /\ pids[1].output_limits # None
    /\ LET raw == RAdd(RMul(KpAt(j), ErrorAt(1, j)), RMul(KiAt(j), acc))
       IN  \/ RLt(raw, pids[1].output_limits[1])
           \/ RLt(pids[1].output_limits[2], raw)

SameSign(a, b) ==
    \/ RLt(Zero, a) /\ RLt(Zero, b)
    \/ RLt(a, Zero) /\ RLt(b, Zero)

\* the growth the claim asserts: the call before the latest and the latest
\* both clamped, with errors of one sign, and the accumulator's magnitude
\* larger after the latest
GrowsWhileSaturated ==
    (/\ Len(log) > 1
     /\ Saturated(Len(log) - 1, pids[2].integral)
     /\ Saturated(Len(log), pids[1].integral)
     /\ SameSign(ErrorAt(1, Len(log) - 1), ErrorAt(1, Len(log)))) =>
        RLt(RAbs(pids[2].integral), RAbs(pids[1].integral))

\* the growth that holds: a nonzero error and an accumulator that is zero,
\* or of the error's sign with no tier rescale at the latest call
GrowsWithoutRescale ==
    (/\ ErrorAt(1, Len(log)) # Zero
     /\ \/ pids[2].integral = Zero
        \/ /\ RLe(RAbs(RSub(KiAt(Len(log)), pids[2].prev_Ki)), Frac(1, 100))
           /\ SameSign(pids[2].integral, ErrorAt(1, Len(log)))) =>
        RAbs(pids[1].integral) =
            RAdd(RAbs(pids[2].integral),
                 RMul(RAbs(ErrorAt(1, Len(log))), ClaimedDt(Len(log))))

\* C28 as stated: on every compute call the accumulator changes by exactly
\* error * dt (after any tier rescale) even when the output is clamped, and
\* while the output stays saturated with an error of constant sign the
\* accumulator's magnitude grows on every call.
C28_SaturationGrowsAccumulator ==
    JustComputed =>
        /\ pids[1].integral = ClaimedIntegral
        /\ GrowsWhileSaturated

\* C28, amended: on every compute call the accumulator changes by exactly
\* error * dt (after any tier rescale) even when the output is clamped; on a
\* call with a nonzero error, where the accumulator is zero, or has the
\* error's sign and there is no tier rescale, its magnitude grows by
\* |error| * dt, clamped or not.
C28_SaturationNeverLimitsAccumulator ==
    JustComputed =>
        /\ pids[1].integral = ClaimedIntegral
        /\ GrowsWithoutRescale

\* two clamped calls in one tier with errors of one sign: the accumulator
\* grew past the first call's
C28_Witness ==
    /\ JustComputed
    /\ Len(log) = 2
    /\ log[1].op = "compute"
    /\ KiAt(1) = KiAt(2)
    /\ SameSign(ErrorAt(1, 1), ErrorAt(1, 2))
    /\ Saturated(1, pids[2].integral)
    /\ Saturated(2, pids[1].integral)
    /\ outs[1][2][1] \in {pids[1].output_limits[1], pids[1].output_limits[2]}
    /\ RLt(RAbs(pids[2].integral), RAbs(pids[1].integral))

\* twin is a controller constructed afresh at the last reset before call j
\* and fed the calls since (None while there was no reset yet): instance 1
\* returned from the latest call what the twin returns
RECURSIVE AsFreshFrom(_, _)
AsFreshAt(twin, j) ==
    IF log[j].op = "reset" THEN AsFreshFrom(FreshOf(pids[1]), j + 1)
    ELSE IF twin = None THEN AsFreshFrom(None, j + 1)
    ELSE IF j = Len(log) THEN outs[1][j] = Apply(twin, log[j]).ret
    ELSE AsFreshFrom(Apply(twin, log[j]).pid, j + 1)

AsFreshFrom(twin, j) == IF j > Len(log) THEN TRUE ELSE AsFreshAt(twin, j)

\* C30: after reset(), every compute call, the first and the later ones,
\* returns the (output, setpoint) that the same calls return on a freshly
\* constructed controller of the same configuration, although reset leaves
\* previous_time = 0 and the constructor leaves it at the start-time
\* argument.
C30_ResetEquivalentToFresh == JustComputed => AsFreshFrom(None, 1)

\* a reset of a controller built without a start time, then two computes of
\* which the second depends on what the first left behind
C30_Witness ==
    /\ JustComputed
    /\ Len(log) = 3
    /\ log[1].op = "reset" /\ log[2].op = "compute"
    /\ pids[1].t_start = None
    /\ PIDReset(FreshOf(pids[1])).prev_time # FreshOf(pids[1]).prev_time
    /\ log[3].t # log[2].t
    /\ outs[1][3] # Apply(FreshOf(pids[1]), log[3]).ret
    /\ outs[1][3] # outs[1][2]

\* ------------------------------------------- derivative function claims
\* a returned call of the derivative function with as many resistance
\* functions as circuits
DerivativeCalled ==
    /\ Called("magnetically_coupled_rl_system")
    /\ Len(fcall.args[4]) = fcall.args[5]

HasLength(list, N) == list # None /\ Len(list) = N

\* C29: the derivative function picks the applied voltages by precedence
\* and list length: a controller list of length N is used (each voltage is
\* its controller's output for the circuit's current) and the voltage
\* functions are ignored; otherwise a voltage-function list of length N is
\* evaluated at t; otherwise, also when a list of another length was passed,
\* the applied voltages are all zero; in the last two cases no controller is
\* called and no error is raised.
C29_VoltagePrecedence ==
    DerivativeCalled =>
        LET t       == fcall.args[1]
            currents == fcall.args[2]
            N       == fcall.args[5]
            vfuncs  == fcall.args[6]
            pidcs   == fcall.args[7]
        IN  IF HasLength(pidcs, N)
            THEN \A i \in 1..N :
                    fret.voltages[i] = PIDCompute(pidcs[i], currents[i], t).output
            ELSE /\ fret.raised = "no"
                 /\ fret.calls = <<>>
                 /\ fret.pids = pidcs
                 /\ \A i \in 1..N :
                       fret.voltages[i] =
                           IF HasLength(vfuncs, N) THEN Interp(vfuncs[i], t)
                           ELSE Zero

\* two circuits, one controller and two voltage functions: the controller
\* list is passed over and the voltage functions are used
C29_Witness ==
    /\ DerivativeCalled
    /\ fcall.args[5] = 2
    /\ fcall.args[7] # None /\ Len(fcall.args[7]) = 1
    /\ fcall.args[6] # None /\ Len(fcall.args[6]) = 2
    /\ fret.raised = "no"
    /\ fret.voltages[1] # Zero
    /\ fret.pids[1].first_call

====
